---- MODULE Spec2Model ----
(***************************************************************************)
(* Model of src/main.rs of rc-telemetrie: the supervisor (main), the       *)
(* control task built with the real-actuators feature, and the telemetry   *)
(* and modem tasks, all spawned on the tokio multi-thread runtime; beside  *)
(* them the lock of the shared I2C handle, and the control task built with *)
(* the fake-actuators feature, which is run side by side with the real one *)
(* to compare the two.                                                     *)
(*                                                                         *)
(* A task is suspended only at an .await; the code between two awaits runs *)
(* without interruption by the runtime, while the root token may be        *)
(* cancelled by main at any moment.  When main returns the runtime is shut *)
(* down: a task suspended at an await is dropped there, a task that is     *)
(* running goes on to its next await and is dropped there.                 *)
(***************************************************************************)
EXTENDS Integers, Sequences, FiniteSets

\* const DEAD_TIMEOUT: u64 = 500 (milliseconds)
DEAD_TIMEOUT == 500

\* Number of clock steps into which one wait window is divided.
TicksPerWindow == 2

\* Non-zero steering and speed commands carried by Update events, in tenths
\* (3 stands for steer = 0.3, 5 for speed = 0.5).
SteerCmd == 3
SpeedCmd == 5

\* At most this many of the spawned tasks are polled by the runtime before it
\* is shut down; the others stay in the run queue and are dropped unpolled.
MaxRunning == 1

Quantum == DEAD_TIMEOUT \div TicksPerWindow

\* The staleness clock saturates one clock step past two wait windows.
StaleCap == 2 * DEAD_TIMEOUT + Quantum

Min(a, b) == IF a < b THEN a ELSE b

\* The clock step taken after w milliseconds of a wait: one quantum, or what
\* is left of the window.
Step(w) == Min(Quantum, DEAD_TIMEOUT - w)

Steers == {0, SteerCmd}
Speeds == {0, SpeedCmd}

Sensors == {"gps", "imu", "analog", "mag"}
Tasks == Sensors \cup {"modem", "control"}

VARIABLES
    token,      \* the root CancellationToken is cancelled
    mainPc,     \* position of main: "select", "cancelled", "returned"
    interrupt,  \* which branch of the select! fired: "none", "SIGINT", "CtrlC"
    pc,         \* position of every spawned task
    seen,       \* seen[t]: a loop-top check of task t has returned cancelled
    stream,     \* the control task's result of db.live_control(): "none",
                \* "err", "live", or "ended" once s.next() has yielded None
    control,    \* the control task's last result of timeout(.., s.next())
    waited,     \* milliseconds elapsed in the current timeout(..)
    stale,      \* milliseconds since the last applied Update or set_speed(0)
    lastSteer,  \* argument of the last set_steer call
    lastSpeed,  \* argument of the last set_speed call
    motorStops, \* number of Motor.safe_stop() calls
    steerStops, \* number of Steering.safe_stop() calls
    effects,    \* effects[t]: the side effects of the last step of task t,
                \* in call order
    i2c,        \* holder of the lock of the Arc<Mutex<I2c>> made by init_i2c():
                \* "free", or the sensor whose reader is in a bus transaction
    simPc,      \* the control task built with fake-actuators: its position,
    simStream,  \* its result of db.live_control(),
    simControl, \* its last result of timeout(.., s.next()),
    simWaited,  \* the milliseconds elapsed in its current timeout(..),
    simOut      \* and the "[CONTROL] Steer: .. Speed: .." lines printed by its
                \* last step

vars == <<token, mainPc, interrupt, pc, seen, stream, control, waited, stale,
          lastSteer, lastSpeed, motorStops, steerStops, effects, i2c,
          simPc, simStream, simControl, simWaited, simOut>>

simVars == <<simPc, simStream, simControl, simWaited, simOut>>

ctlVars == <<stream, control, waited, stale, lastSteer, lastSpeed,
             motorStops, steerStops>>

\* Positions at which a task is suspended at an .await.
YieldPoints == {"live_control", "timeout", "next", "send", "proxy", "get", "sleep"}

\* Positions of a task that has ended.
Ended == {"init_failed", "done", "dropped", "panicked"}

\* Variant: the tasks check a token that is not a child of the root, which is
\* never cancelled.
is_cancelled_unlinked(t) == FALSE

\* token.is_cancelled() on the child token of task t: a child token is
\* cancelled exactly when the root is (no child is cancelled on its own).
is_cancelled(t) == token

\* A suspended task is resumed only while the runtime is alive.
Resumable(t, p) == pc[t] = p /\ mainPc # "returned"

\* One side effect: an actuator call or an append to the store.
Effect(t, op, val, ok) == [task |-> t, op |-> op, val |-> val, ok |-> ok]

\* Values of `control`.
NoResult == [kind |-> "init",    action |-> "-", steer |-> 0, speed |-> 0]
Elapsed  == [kind |-> "elapsed", action |-> "-", steer |-> 0, speed |-> 0]
NoneItem == [kind |-> "none",    action |-> "-", steer |-> 0, speed |-> 0]
ErrItem  == [kind |-> "err",     action |-> "-", steer |-> 0, speed |-> 0]
Notification(a, st, sp) == [kind |-> "ok", action |-> a, steer |-> st, speed |-> sp]

Updates == {Notification("Update", st, sp) : st \in Steers, sp \in Speeds}
Others  == {Notification("Insert", 0, 0), Notification("Delete", 0, 0)}
Items   == Updates \cup Others \cup {ErrItem}

Init ==
    /\ token = FALSE
    /\ mainPc = "select"
    /\ interrupt = "none"
    /\ pc = [t \in Tasks |-> "spawned"]
    /\ seen = [t \in Tasks |-> FALSE]
    /\ stream = "none"
    /\ control = NoResult
    /\ waited = 0
    /\ stale = 0
    /\ lastSteer = 0
    /\ lastSpeed = 0
    /\ motorStops = 0
    /\ steerStops = 0
    /\ effects = [t \in Tasks |-> <<>>]
    /\ i2c = "free"
    /\ simPc = "spawned"
    /\ simStream = "none"
    /\ simControl = NoResult
    /\ simWaited = 0
    /\ simOut = <<>>

----------------------------------------------------------------------------
\* main: the select! over SIGINT and Ctrl-C, token.cancel(), and the return.

Signal(kind) ==
    /\ mainPc = "select"
    /\ mainPc' = "cancelled"
    /\ interrupt' = kind
    /\ token' = TRUE
    /\ UNCHANGED <<pc, seen, effects>>
    /\ UNCHANGED ctlVars

MainReturn ==
    /\ mainPc = "cancelled"
    /\ mainPc' = "returned"
    /\ UNCHANGED <<token, interrupt, pc, seen, effects>>
    /\ UNCHANGED ctlVars

\* The step of task t has the side effects e.
Emit(t, e) == effects' = [effects EXCEPT ![t] = e]

\* tokio::spawn(async move { .. }): the first poll of a spawned task.
FirstPc(t) == IF t = "control" THEN "init_motor"
              ELSE IF t = "modem" THEN "proxy" ELSE "top"

Started == {t \in Tasks : pc[t] # "spawned"}

\* The first poll of task t, whatever the number of tasks polled before it.
Poll(t) ==
    /\ pc[t] = "spawned"
    /\ mainPc # "returned"
    /\ pc' = [pc EXCEPT ![t] = FirstPc(t)]
    /\ Emit(t, <<>>)
    /\ UNCHANGED <<token, mainPc, interrupt, seen>>
    /\ UNCHANGED ctlVars

Start(t) ==
    /\ Cardinality(Started) < MaxRunning
    /\ Poll(t)

\* Runtime shutdown: a task suspended at an await is dropped (a task that was
\* never polled stays "spawned": it has no position to be dropped from).
Drop(t) ==
    /\ mainPc = "returned"
    /\ pc[t] \in YieldPoints
    /\ pc' = [pc EXCEPT ![t] = "dropped"]
    /\ Emit(t, <<>>)
    /\ UNCHANGED <<token, mainPc, interrupt, seen>>
    /\ UNCHANGED ctlVars

----------------------------------------------------------------------------
\* The control task, real-actuators.

Goto(t, p) == pc' = [pc EXCEPT ![t] = p]

\* Motor::new(): on Err the task returns.
InitMotor(ok) ==
    /\ pc["control"] = "init_motor"
    /\ Goto("control", IF ok THEN "init_steer" ELSE "init_failed")
    /\ Emit("control", <<>>)
    /\ UNCHANGED <<token, mainPc, interrupt, seen>>
    /\ UNCHANGED ctlVars

\* Steering::new(): on Err the task returns.
InitSteer(ok) ==
    /\ pc["control"] = "init_steer"
    /\ Goto("control", IF ok THEN "outer_top" ELSE "init_failed")
    /\ Emit("control", <<>>)
    /\ UNCHANGED <<token, mainPc, interrupt, seen>>
    /\ UNCHANGED ctlVars

\* Variant: the outer loop is a plain `loop`, it opens a subscription whether
\* or not the token is cancelled.
OuterTop_Unchecked ==
    /\ pc["control"] = "outer_top"
    /\ pc' = [pc EXCEPT !["control"] = "live_control"]
    /\ effects' = [effects EXCEPT !["control"] = <<>>]
    /\ UNCHANGED <<token, mainPc, interrupt, seen>>
    /\ UNCHANGED ctlVars

\* Variant: after the loops the task goes straight to steer.safe_stop().
OuterTop_SkipsMotorStop ==
    /\ pc["control"] = "outer_top"
    /\ IF token
         THEN /\ pc' = [pc EXCEPT !["control"] = "steer_stop"]
              /\ seen' = [seen EXCEPT !["control"] = TRUE]
         ELSE /\ pc' = [pc EXCEPT !["control"] = "live_control"]
              /\ UNCHANGED seen
    /\ effects' = [effects EXCEPT !["control"] = <<>>]
    /\ UNCHANGED <<token, mainPc, interrupt>>
    /\ UNCHANGED ctlVars

\* while !token.is_cancelled() { let stream = db.live_control().await; ..
OuterTop ==
    /\ pc["control"] = "outer_top"
    /\ IF is_cancelled("control")
         THEN /\ Goto("control", "motor_stop")
              /\ seen' = [seen EXCEPT !["control"] = TRUE]
         ELSE /\ Goto("control", "live_control")
              /\ UNCHANGED seen
    /\ Emit("control", <<>>)
    /\ UNCHANGED <<token, mainPc, interrupt>>
    /\ UNCHANGED ctlVars

\* Variant: an Err of db.live_control() ends the task.
LiveControl_FatalErr(ok) ==
    /\ pc["control"] = "live_control" /\ mainPc # "returned"
    /\ pc' = [pc EXCEPT !["control"] = IF ok THEN "inner_top" ELSE "done"]
    /\ stream' = IF ok THEN "live" ELSE "err"
    /\ effects' = [effects EXCEPT !["control"] = <<>>]
    /\ UNCHANGED <<token, mainPc, interrupt, seen>>
    /\ UNCHANGED <<control, waited, stale, lastSteer, lastSpeed, motorStops, steerStops>>

\* db.live_control().await returns: Ok(s) enters the inner loop with a new
\* stream, Err(e) is logged and the outer loop goes round.
LiveControl(ok) ==
    /\ Resumable("control", "live_control")
    /\ Goto("control", IF ok THEN "inner_top" ELSE "outer_top")
    /\ stream' = IF ok THEN "live" ELSE "err"
    /\ Emit("control", <<>>)
    /\ UNCHANGED <<token, mainPc, interrupt, seen>>
    /\ UNCHANGED <<control, waited, stale, lastSteer, lastSpeed, motorStops, steerStops>>

\* Variant: the deadline is armed once, when the stream is opened, and not
\* again by the iterations of the inner loop.
InnerTop_SingleDeadline ==
    /\ pc["control"] = "inner_top"
    /\ IF token
         THEN /\ pc' = [pc EXCEPT !["control"] = "outer_top"]
              /\ seen' = [seen EXCEPT !["control"] = TRUE]
              /\ stream' = "none"
         ELSE /\ pc' = [pc EXCEPT !["control"] = "timeout"]
              /\ UNCHANGED <<seen, stream>>
    /\ effects' = [effects EXCEPT !["control"] = <<>>]
    /\ UNCHANGED <<token, mainPc, interrupt>>
    /\ UNCHANGED <<control, waited, stale, lastSteer, lastSpeed, motorStops, steerStops>>

\* while !token.is_cancelled() { let control = timeout(.., s.next()).await; ..
InnerTop ==
    /\ pc["control"] = "inner_top"
    /\ IF is_cancelled("control")
         THEN /\ Goto("control", "outer_top")
              /\ seen' = [seen EXCEPT !["control"] = TRUE]
              /\ stream' = "none"
         ELSE /\ Goto("control", "timeout")
              /\ UNCHANGED <<seen, stream>>
    /\ waited' = 0
    /\ Emit("control", <<>>)
    /\ UNCHANGED <<token, mainPc, interrupt>>
    /\ UNCHANGED <<control, stale, lastSteer, lastSpeed, motorStops, steerStops>>

\* Time passes while the task is suspended in timeout(.., s.next()).
Tick ==
    /\ Resumable("control", "timeout")
    /\ waited < DEAD_TIMEOUT
    /\ waited' = waited + Step(waited)
    /\ stale' = Min(stale + Step(waited), StaleCap)
    /\ Emit("control", <<>>)
    /\ UNCHANGED <<token, mainPc, interrupt, pc, seen>>
    /\ UNCHANGED <<stream, control, lastSteer, lastSpeed, motorStops, steerStops>>

\* Variant: the check of data.action is missing, every decoded notification
\* is applied.
Apply_Unfiltered(item, okSteer, okSpeed) ==
    IF item.kind = "ok"
      THEN << Effect("control", "set_steer", item.steer, okSteer),
              Effect("control", "set_speed", item.speed, okSpeed) >>
      ELSE << >>

\* Variant: the speed is set before the steering.
Apply_SpeedFirst(item, okSteer, okSpeed) ==
    IF item.kind = "ok" /\ item.action = "Update"
      THEN << Effect("control", "set_speed", item.speed, okSpeed),
              Effect("control", "set_steer", item.steer, okSteer) >>
      ELSE << >>

\* Variant: the Err of steer.set_steer(..) is propagated, motor.set_speed(..)
\* is not called after it.
Apply_StopsAtSteerErr(item, okSteer, okSpeed) ==
    IF item.kind = "ok" /\ item.action = "Update"
      THEN IF okSteer
             THEN << Effect("control", "set_steer", item.steer, okSteer),
                     Effect("control", "set_speed", item.speed, okSpeed) >>
             ELSE << Effect("control", "set_steer", item.steer, okSteer) >>
      ELSE << >>

\* The actuator calls of one Ok(Some(Ok(data))) or Ok(Some(Err(e))): only an
\* Update reaches steer.set_steer and motor.set_speed, in this order;
\* the Result of each call is logged and dropped.
Apply(item, okSteer, okSpeed) ==
    IF item.kind = "ok" /\ item.action = "Update"
      THEN << Effect("control", "set_steer", item.steer, okSteer),
              Effect("control", "set_speed", item.speed, okSpeed) >>
      ELSE << >>

\* The argument of the last call of op among the calls es, or old if none.
LastArg(op, es, old) ==
    LET at == {i \in 1..Len(es) : es[i].op = op}
    IN  IF at = {} THEN old
        ELSE es[CHOOSE i \in at : \A j \in at : j <= i].val

\* The staleness clock restarts when an Update is applied or the speed zeroed.
Restart(es, old) ==
    IF \E i \in 1..Len(es) : es[i].op = "set_speed" THEN 0 ELSE old

\* s.next() yields within the window: Ok(data).
NextItem(item, okSteer, okSpeed) ==
    /\ Resumable("control", "timeout")
    /\ waited < DEAD_TIMEOUT
    /\ stream = "live"
    /\ control' = item
    /\ Emit("control", Apply(item, okSteer, okSpeed))
    /\ lastSteer' = LastArg("set_steer", Apply(item, okSteer, okSpeed), lastSteer)
    /\ lastSpeed' = LastArg("set_speed", Apply(item, okSteer, okSpeed), lastSpeed)
    /\ stale' = Restart(Apply(item, okSteer, okSpeed), stale)
    /\ Goto("control", "inner_top")
    /\ UNCHANGED <<token, mainPc, interrupt, seen>>
    /\ UNCHANGED <<stream, waited, motorStops, steerStops>>

\* s.next() yields None (the stream has ended): `continue`.  An ended stream
\* is polled again by the next iteration.
NextNone ==
    /\ Resumable("control", "timeout")
    /\ waited < DEAD_TIMEOUT
    /\ stream \in {"live", "ended"}
    /\ stream' = "ended"
    /\ control' = NoneItem
    /\ Emit("control", <<>>)
    /\ Goto("control", "inner_top")
    /\ UNCHANGED <<token, mainPc, interrupt, seen>>
    /\ UNCHANGED <<waited, stale, lastSteer, lastSpeed, motorStops, steerStops>>

\* Variant: the timeout also centres the steering.
OnElapsed_CentresSteering(okSpeed) ==
    << Effect("control", "set_steer", 0, TRUE),
       Effect("control", "set_speed", 0, okSpeed) >>

\* The deadline elapses: Err(Elapsed), let _ = motor.set_speed(0.0).
OnElapsed(okSpeed) == << Effect("control", "set_speed", 0, okSpeed) >>

Timeout(okSpeed) ==
    /\ Resumable("control", "timeout")
    /\ waited = DEAD_TIMEOUT
    /\ control' = Elapsed
    /\ Emit("control", OnElapsed(okSpeed))
    /\ lastSteer' = LastArg("set_steer", OnElapsed(okSpeed), lastSteer)
    /\ lastSpeed' = LastArg("set_speed", OnElapsed(okSpeed), lastSpeed)
    /\ stale' = Restart(OnElapsed(okSpeed), stale)
    /\ Goto("control", "inner_top")
    /\ UNCHANGED <<token, mainPc, interrupt, seen>>
    /\ UNCHANGED <<stream, waited, motorStops, steerStops>>

\* motor.safe_stop();
MotorSafeStop ==
    /\ pc["control"] = "motor_stop"
    /\ motorStops' = motorStops + 1
    /\ Emit("control", << Effect("control", "motor_safe_stop", 0, TRUE) >>)
    /\ Goto("control", "steer_stop")
    /\ UNCHANGED <<token, mainPc, interrupt, seen>>
    /\ UNCHANGED <<stream, control, waited, stale, lastSteer, lastSpeed, steerStops>>

\* steer.safe_stop(); and the task ends.
SteerSafeStop ==
    /\ pc["control"] = "steer_stop"
    /\ steerStops' = steerStops + 1
    /\ Emit("control", << Effect("control", "steer_safe_stop", 0, TRUE) >>)
    /\ Goto("control", "done")
    /\ UNCHANGED <<token, mainPc, interrupt, seen>>
    /\ UNCHANGED <<stream, control, waited, stale, lastSteer, lastSpeed, motorStops>>

ControlStep ==
    \/ \E ok \in BOOLEAN : InitMotor(ok)
    \/ \E ok \in BOOLEAN : InitSteer(ok)
    \/ OuterTop
    \/ \E ok \in BOOLEAN : LiveControl(ok)
    \/ InnerTop
    \/ \E item \in Items, a \in BOOLEAN, b \in BOOLEAN : NextItem(item, a, b)
    \/ NextNone
    \/ \E ok \in BOOLEAN : Timeout(ok)
    \/ MotorSafeStop
    \/ SteerSafeStop

----------------------------------------------------------------------------
\* The telemetry tasks and the modem task (real-sensors).

\* while !token.is_cancelled() { .. } of a telemetry or modem task: the body
\* starts with the await at position `body`.
LoopTop(t, body) ==
    /\ pc[t] = "top"
    /\ IF is_cancelled(t)
         THEN /\ Goto(t, "done")
              /\ seen' = [seen EXCEPT ![t] = TRUE]
         ELSE /\ Goto(t, body)
              /\ UNCHANGED seen
    /\ Emit(t, <<>>)
    /\ UNCHANGED <<token, mainPc, interrupt>>
    /\ UNCHANGED ctlVars

\* A step of task t from position p to position q with side effects e.
Move(t, p, q, e) ==
    /\ Resumable(t, p)
    /\ Goto(t, q)
    /\ Emit(t, e)
    /\ UNCHANGED <<token, mainPc, interrupt, seen>>
    /\ UNCHANGED ctlVars

\* db.send_..(data).await: the append is made, its Err is logged.
Sent(t, ok) == << Effect(t, "append", 0, ok) >>

\* GPS: reader.next().await yields None, a Gga, a Vtg or another sentence;
\* Gga and Vtg are sent, nothing paces the loop.
GpsNext(r) ==
    Move("gps", "next", IF r \in {"Gga", "Vtg"} THEN "send" ELSE "top", <<>>)

\* Variant: the Err of db.send_gps_..(..) is propagated (`?`) and ends the task.
GpsSend_Propagates(ok) ==
    Move("gps", "send", IF ok THEN "top" ELSE "done", Sent("gps", ok))

GpsSend(ok) == Move("gps", "send", "top", Sent("gps", ok))

\* IMU: a reading is sent; the 50 ms sleep follows in every iteration.
ImuNext(r) ==
    Move("imu", "next", IF r = "Some" THEN "send" ELSE "sleep", <<>>)

ImuSend(ok) == Move("imu", "send", "sleep", Sent("imu", ok))

ImuSleep == Move("imu", "sleep", "top", <<>>)

\* Analog: Some(Ok(data)) is sent; the 500 ms sleep is inside `if let Some`,
\* so None goes straight back to the top of the loop.
AnalogNext(r) ==
    Move("analog", "next",
         IF r = "SomeOk" THEN "send" ELSE IF r = "SomeErr" THEN "sleep" ELSE "top",
         <<>>)

AnalogSend(ok) == Move("analog", "send", "sleep", Sent("analog", ok))

AnalogSleep == Move("analog", "sleep", "top", <<>>)

\* Magnetometer: Some(Ok(data)) is sent; the 300 ms sleep follows in every
\* iteration.
MagNext(r) ==
    Move("mag", "next", IF r = "SomeOk" THEN "send" ELSE "sleep", <<>>)

MagSend(ok) == Move("mag", "send", "sleep", Sent("mag", ok))

MagSleep == Move("mag", "sleep", "top", <<>>)

\* Modem: the proxy is built with .expect(..) before the loop; in the loop
\* proxy.get(..).await.expect(..) panics on Err, the value is sent with
\* let _ = .., and the task sleeps 500 ms.
ModemProxy(ok) == Move("modem", "proxy", IF ok THEN "top" ELSE "panicked", <<>>)

ModemGet(ok) == Move("modem", "get", IF ok THEN "send" ELSE "panicked", <<>>)

ModemSend(ok) == Move("modem", "send", "sleep", Sent("modem", ok))

ModemSleep == Move("modem", "sleep", "top", <<>>)

GpsStep ==
    \/ LoopTop("gps", "next")
    \/ \E r \in {"None", "Gga", "Vtg", "Other"} : GpsNext(r)
    \/ \E ok \in BOOLEAN : GpsSend(ok)

ImuStep ==
    \/ LoopTop("imu", "next")
    \/ \E r \in {"None", "Some"} : ImuNext(r)
    \/ \E ok \in BOOLEAN : ImuSend(ok)
    \/ ImuSleep

AnalogStep ==
    \/ LoopTop("analog", "next")
    \/ \E r \in {"None", "SomeOk", "SomeErr"} : AnalogNext(r)
    \/ \E ok \in BOOLEAN : AnalogSend(ok)
    \/ AnalogSleep

MagStep ==
    \/ LoopTop("mag", "next")
    \/ \E r \in {"None", "SomeOk", "SomeErr"} : MagNext(r)
    \/ \E ok \in BOOLEAN : MagSend(ok)
    \/ MagSleep

ModemStep ==
    \/ \E ok \in BOOLEAN : ModemProxy(ok)
    \/ LoopTop("modem", "get")
    \/ \E ok \in BOOLEAN : ModemGet(ok)
    \/ \E ok \in BOOLEAN : ModemSend(ok)
    \/ ModemSleep

PipelineStep == GpsStep \/ ImuStep \/ AnalogStep \/ MagStep \/ ModemStep

Supervisor ==
    \/ \E kind \in {"SIGINT", "CtrlC"} : Signal(kind)
    \/ MainReturn

----------------------------------------------------------------------------
\* The I2C bus.  init_i2c() makes one Arc<Mutex<I2c>>; a clone of it is given
\* to the IMU, Analog and Magnetometer readers, and to nothing else: the GPS
\* reader, Motor::new() and Steering::new() take no bus handle.

BusSensors == {"imu", "analog", "mag"}

\* reader.next() of a bus sensor locks the handle for one transaction ..
BusLock(t) ==
    /\ t \in BusSensors
    /\ Resumable(t, "next")
    /\ i2c = "free"
    /\ i2c' = t
    /\ UNCHANGED <<token, mainPc, interrupt, pc, seen, effects>>
    /\ UNCHANGED ctlVars

\* .. and unlocks it when the transaction is over, before it returns.
BusUnlock(t) ==
    /\ i2c = t
    /\ i2c' = "free"
    /\ UNCHANGED <<token, mainPc, interrupt, pc, seen, effects>>
    /\ UNCHANGED ctlVars

\* A step of a task other than t's reader in its transaction: the lock is not
\* held across an await, so t is not resumed or dropped while it holds it.
NotIn(t) == i2c # t /\ UNCHANGED i2c

\* A step that does not involve the bus.
BusIdle == UNCHANGED i2c

----------------------------------------------------------------------------
\* The control task, fake-actuators: the same two loops with no actuator, an
\* Update is printed.  Its steps are written over its own variables so that
\* it can be run side by side with the real-actuators task.

\* println!("[CONTROL] Steer: {} Speed: {}", data.data.steer, data.data.speed)
Line(st, sp) == [steer |-> st, speed |-> sp]

\* Variant: the check of data.action is missing in the fake-actuators block.
FakePrint_Unfiltered(item) ==
    IF item.kind = "ok" THEN << Line(item.steer, item.speed) >> ELSE << >>

\* What the task prints for one Ok(Some(..)): only an Update is printed.
FakePrint(item) ==
    IF item.kind = "ok" /\ item.action = "Update"
      THEN << Line(item.steer, item.speed) >>
      ELSE << >>

\* The task, once polled, is at its outer loop: there is nothing to build.
FakeEnter ==
    /\ simPc = "spawned"
    /\ simPc' = "outer_top"
    /\ simOut' = <<>>
    /\ UNCHANGED <<simStream, simControl, simWaited>>

\* while !token.is_cancelled() { let stream = db.live_control().await; ..
\* After the loop the task ends.
FakeOuterTop ==
    /\ simPc = "outer_top"
    /\ simPc' = IF is_cancelled("control") THEN "done" ELSE "live_control"
    /\ simOut' = <<>>
    /\ UNCHANGED <<simStream, simControl, simWaited>>

FakeLiveControl(ok) ==
    /\ simPc = "live_control" /\ mainPc # "returned"
    /\ simPc' = IF ok THEN "inner_top" ELSE "outer_top"
    /\ simStream' = IF ok THEN "live" ELSE "err"
    /\ simOut' = <<>>
    /\ UNCHANGED <<simControl, simWaited>>

\* while !token.is_cancelled() { let control = timeout(.., s.next()).await; ..
FakeInnerTop ==
    /\ simPc = "inner_top"
    /\ IF is_cancelled("control")
         THEN simPc' = "outer_top" /\ simStream' = "none"
         ELSE simPc' = "timeout" /\ UNCHANGED simStream
    /\ simWaited' = 0
    /\ simOut' = <<>>
    /\ UNCHANGED simControl

FakeTick ==
    /\ simPc = "timeout" /\ mainPc # "returned"
    /\ simWaited < DEAD_TIMEOUT
    /\ simWaited' = simWaited + Step(simWaited)
    /\ simOut' = <<>>
    /\ UNCHANGED <<simPc, simStream, simControl>>

FakeNextItem(item) ==
    /\ simPc = "timeout" /\ mainPc # "returned"
    /\ simWaited < DEAD_TIMEOUT
    /\ simStream = "live"
    /\ simControl' = item
    /\ simOut' = FakePrint(item)
    /\ simPc' = "inner_top"
    /\ UNCHANGED <<simStream, simWaited>>

FakeNextNone ==
    /\ simPc = "timeout" /\ mainPc # "returned"
    /\ simWaited < DEAD_TIMEOUT
    /\ simStream \in {"live", "ended"}
    /\ simStream' = "ended"
    /\ simControl' = NoneItem
    /\ simOut' = <<>>
    /\ simPc' = "inner_top"
    /\ UNCHANGED simWaited

\* Err(_): only the late-update message is printed to stderr.
FakeTimeout ==
    /\ simPc = "timeout" /\ mainPc # "returned"
    /\ simWaited = DEAD_TIMEOUT
    /\ simControl' = Elapsed
    /\ simOut' = <<>>
    /\ simPc' = "inner_top"
    /\ UNCHANGED <<simStream, simWaited>>

FakeDrop ==
    /\ mainPc = "returned"
    /\ simPc \in YieldPoints
    /\ simPc' = "dropped"
    /\ simOut' = <<>>
    /\ UNCHANGED <<simStream, simControl, simWaited>>

\* A step that is not one of the fake-actuators task.
SimIdle == UNCHANGED simVars

\* A step of a specification that leaves out the bus and the fake-actuators
\* task.
Apart == BusIdle /\ SimIdle

\* The steps of main, and those of the real-actuators control task, in such
\* a specification.
MainAlone ==
    \/ \E kind \in {"SIGINT", "CtrlC"} : Signal(kind) /\ Apart
    \/ MainReturn /\ Apart

ControlAlone ==
    \/ \E ok \in BOOLEAN : InitMotor(ok) /\ Apart
    \/ \E ok \in BOOLEAN : InitSteer(ok) /\ Apart
    \/ OuterTop /\ Apart
    \/ \E ok \in BOOLEAN : LiveControl(ok) /\ Apart
    \/ InnerTop /\ Apart
    \/ \E item \in Items, a \in BOOLEAN, b \in BOOLEAN :
          NextItem(item, a, b) /\ Apart
    \/ NextNone /\ Apart
    \/ \E ok \in BOOLEAN : Timeout(ok) /\ Apart
    \/ MotorSafeStop /\ Apart
    \/ SteerSafeStop /\ Apart

\* The control task alone under the supervisor.
Next ==
    \/ MainAlone
    \/ Start("control") /\ Apart
    \/ ControlAlone
    \/ Tick /\ Apart
    \/ Drop("control") /\ Apart

Spec == Init /\ [][Next]_vars

\* Every spawned task under the supervisor.
SystemNext ==
    \/ MainAlone
    \/ \E t \in Tasks : Start(t) /\ Apart
    \/ ControlAlone
    \/ Tick /\ Apart
    \/ GpsStep /\ Apart
    \/ ImuStep /\ Apart
    \/ AnalogStep /\ Apart
    \/ MagStep /\ Apart
    \/ ModemStep /\ Apart
    \/ \E t \in Tasks : Drop(t) /\ Apart

SystemSpec == Init /\ [][SystemNext]_vars

\* The same for every task: each task that can run is polled, each sleep and
\* each pending read or append completes.
FairSystemSpec ==
    /\ SystemSpec
    /\ \A t \in Tasks : WF_vars(Start(t) /\ Apart) /\ WF_vars(Drop(t) /\ Apart)
    /\ WF_vars((ControlStep \/ Tick) /\ Apart)
    /\ WF_vars(GpsStep /\ Apart) /\ WF_vars(ImuStep /\ Apart)
    /\ WF_vars(AnalogStep /\ Apart) /\ WF_vars(MagStep /\ Apart)
    /\ WF_vars(ModemStep /\ Apart)
    /\ WF_vars(MainReturn /\ Apart)

\* The runtime polls a task that can run, the timer of timeout(..) advances,
\* main returns once it has cancelled the token, and the shutdown drops the
\* suspended task.  The interrupt and the stream's items are not forced.
FairSpec ==
    /\ Spec
    /\ WF_vars(Start("control") /\ Apart)
    /\ WF_vars((ControlStep \/ Tick) /\ Apart)
    /\ WF_vars(MainReturn /\ Apart)
    /\ WF_vars(Drop("control") /\ Apart)

\* The control task and one telemetry task, the IMU pipeline, both polled
\* under the supervisor.
DuoNext ==
    \/ MainAlone
    \/ Poll("control") /\ Apart
    \/ Poll("imu") /\ Apart
    \/ ControlAlone
    \/ Tick /\ Apart
    \/ ImuStep /\ NotIn("imu") /\ SimIdle
    \/ BusLock("imu") /\ SimIdle
    \/ BusUnlock("imu") /\ SimIdle
    \/ Drop("control") /\ Apart
    \/ Drop("imu") /\ NotIn("imu") /\ SimIdle

DuoSpec == Init /\ [][DuoNext]_vars

\* The real-actuators task and the fake-actuators task side by side, fed the
\* same cancellation, the same subscription results, the same items and the
\* same clock: every step of the loops of the one is taken together with the
\* same step of the other.  Building the actuators and the safe-stops are
\* steps of the real-actuators task alone.
TwinNext ==
    \/ MainAlone
    \/ Start("control") /\ Apart
    \/ (\E ok \in BOOLEAN : InitMotor(ok)) /\ Apart
    \/ InitSteer(FALSE) /\ Apart
    \/ InitSteer(TRUE) /\ FakeEnter /\ BusIdle
    \/ OuterTop /\ FakeOuterTop /\ BusIdle
    \/ \E ok \in BOOLEAN : LiveControl(ok) /\ FakeLiveControl(ok) /\ BusIdle
    \/ InnerTop /\ FakeInnerTop /\ BusIdle
    \/ Tick /\ FakeTick /\ BusIdle
    \/ \E item \in Items, okSteer, okSpeed \in BOOLEAN :
          NextItem(item, okSteer, okSpeed) /\ FakeNextItem(item) /\ BusIdle
    \/ NextNone /\ FakeNextNone /\ BusIdle
    \/ \E okSpeed \in BOOLEAN : Timeout(okSpeed) /\ FakeTimeout /\ BusIdle
    \/ MotorSafeStop /\ Apart
    \/ SteerSafeStop /\ Apart
    \/ Drop("control") /\ FakeDrop /\ BusIdle

TwinSpec == Init /\ [][TwinNext]_vars

----------------------------------------------------------------------------
\* Shorthands for the properties below.

ctl == pc["control"]
calls == effects["control"]

BothStoppedOnce == motorStops = 1 /\ steerStops = 1

\* C1: dead-man invariant.  Once a wait window has passed with no Update
\* applied, set_speed(0) is invoked before the next window has passed too:
\* the time since the last applied Update or set_speed(0) never exceeds two
\* windows, whatever else (Insert, Delete, an erroneous event) arrives.  Stated
\* for the case that matters: the last speed commanded is not zero.
C1_DeadManWithinNextWindow == lastSpeed # 0 => stale <= 2 * DEAD_TIMEOUT

\* C2: safe under any interruption of the command path.  After a non-zero
\* speed was applied and the stream has ended (s.next() yields None, so no
\* Update can come), set_speed(0) is eventually invoked, without the help of
\* a cancellation.
C2_EndedStreamZeroesSpeed ==
    (lastSpeed # 0 /\ stream = "ended") ~> (lastSpeed = 0 \/ token)

\* C3: when the control task that had entered its loops has ended, it has
\* called Motor.safe_stop() and Steering.safe_stop() exactly once each.
C3_SafeStopOnceBeforeTaskEnds ==
    ctl \in {"done", "dropped"} => BothStoppedOnce

\* C4: main does not return before the control task has safe-stopped both
\* actuators: when main has returned, the control task is not left suspended
\* in (or dropped from) its loops with the safe-stop still to be done.
C4_MainReturnsAfterSafeStop ==
    (mainPc = "returned" /\ ctl \in {"live_control", "timeout", "dropped"})
        => BothStoppedOnce

\* Positions of the loop-top checks, and of the first await of an iteration.
LoopTops == {"top", "outer_top", "inner_top"}
BodyStarts == {"next", "get", "live_control", "timeout"}

\* C5: after the root token is cancelled no task starts a new iteration: a
\* loop-top check made after the cancellation never lets its task into the
\* loop body, so a task completes at most the iteration that was in flight.
C5_NoIterationStartsAfterCancel ==
    [][token => \A t \in Tasks :
                  ~(pc[t] \in LoopTops /\ pc'[t] \in BodyStarts)]_vars

\* Supplement to C5, under FairSystemSpec: once the token is cancelled every
\* task that was started ends.
C5_Terminates == token ~> (\A t \in Started : pc[t] \in Ended)

\* The token was cancelled while the control task was handling an Update; the
\* task completed that iteration and left both loops at their top checks.
C5_Witness ==
    /\ token /\ seen["control"] /\ ctl = "motor_stop"
    /\ control.kind = "ok" /\ control.action = "Update" /\ lastSpeed # 0

SafeStops == {"motor_safe_stop", "steer_safe_stop"}

\* C6: a task whose loop-top check has returned cancelled has no side effect
\* afterwards (no append, no set_steer, no set_speed, no new subscription)
\* other than the two safe-stop calls of the control task.
C6_NoSideEffectOnceCancelSeen ==
    \A t \in Tasks :
        seen[t] => /\ \A i \in 1..Len(effects[t]) :
                        t = "control" /\ effects[t][i].op \in SafeStops
                   /\ pc[t] \notin BodyStarts \cup {"send", "sleep"}

\* The control task has seen the cancellation while a non-zero speed was
\* commanded, and has made its safe-stop calls and nothing else.
C6_Witness ==
    /\ seen["control"] /\ Len(calls) = 1 /\ calls[1].op = "steer_safe_stop"
    /\ lastSpeed # 0 /\ ctl = "done"

\* C7: set_steer is called only for a decoded Update, with its steer; set_speed
\* only for a decoded Update, with its speed, or with 0 on a dead-man timeout.
\* An Insert or Delete reaches neither.
C7_OnlyUpdatesReachActuators ==
    \A i \in 1..Len(calls) :
        /\ calls[i].op = "set_steer" =>
              control.kind = "ok" /\ control.action = "Update"
                                 /\ calls[i].val = control.steer
        /\ calls[i].op = "set_speed" =>
              \/ control.kind = "ok" /\ control.action = "Update"
                                    /\ calls[i].val = control.speed
              \/ control.kind = "elapsed" /\ calls[i].val = 0

\* An Insert has just been handled while a non-zero speed was commanded, and
\* no actuator was called for it.
C7_Witness ==
    /\ ctl = "inner_top" /\ control.kind = "ok" /\ control.action = "Insert"
    /\ calls = <<>> /\ lastSpeed = SpeedCmd /\ lastSteer = SteerCmd

\* The step that handles Err(Elapsed).
TimeoutStep == ctl = "timeout" /\ control'.kind = "elapsed" /\ pc'["control"] = "inner_top"

\* C8: a dead-man timeout calls set_speed(0) and nothing else: set_steer is not
\* called and the last commanded steering value stays.
C8_TimeoutZeroesSpeedOnly ==
    [][TimeoutStep => /\ Len(effects'["control"]) = 1
                      /\ effects'["control"][1].op = "set_speed"
                      /\ effects'["control"][1].val = 0
                      /\ lastSpeed' = 0
                      /\ lastSteer' = lastSteer]_vars

\* After Update{steer = 0.3, speed = 0.5} and silence the timeout has zeroed the
\* speed and the steering command is still 0.3.
C8_Witness ==
    /\ control.kind = "elapsed" /\ ctl = "inner_top"
    /\ Len(calls) = 1 /\ calls[1].op = "set_speed" /\ calls[1].val = 0
    /\ lastSteer = SteerCmd /\ lastSpeed = 0

\* C9: while the last db.live_control() has failed and the cancellation has not
\* been seen, the control task has not ended, is at the top of the outer loop
\* or opening again, and calls no actuator; from the top of the outer loop it
\* opens again unless the token is cancelled.
C9_OpenFailureRetriesWithoutActuators ==
    /\ [](stream = "err" /\ ~seen["control"] =>
            /\ calls = <<>>
            /\ ctl \in {"outer_top", "live_control", "dropped"}
            /\ ctl = "dropped" => mainPc = "returned")
    /\ [][stream = "err" /\ ctl = "outer_top" /\ ~token /\ pc'["control"] # ctl
            => pc'["control"] = "live_control"]_vars

\* The open has failed and the task is opening again.
C9_Witness == stream = "err" /\ ctl = "live_control" /\ ~token

\* C10: once the opened stream has ended, the control task opens a new
\* subscription unless the token is cancelled.
C10_EndedStreamIsReopened ==
    (stream = "ended") ~> (ctl = "live_control" \/ token)

\* C11: a failure of Motor::new() or Steering::new() at the start of the
\* control task is fatal to the process: once the initialisation has failed
\* (and no interrupt was received) no telemetry task goes on working with no
\* control loop beside it; in particular no IMU sample is appended any more.
C11_InitFailureEndsTheProcess ==
    [][ctl = "init_failed" /\ ~token =>
          ~(pc["imu"] = "send" /\ effects'["imu"] # <<>>)]_vars

\* The last append of task t has failed.
FailedAppend(t) == effects[t] # <<>> /\ ~effects[t][1].ok

\* C12: a failed append or a failed decode does not end a telemetry task.  A
\* telemetry task ends only by its own loop-top check returning cancelled, or
\* dropped at the shutdown; right after a failed append it is on its way back
\* to the top of its loop; and while the token is not cancelled every step
\* leaves it in its loop, the step from the top of the loop being the next
\* reader.next().
C12_FailuresDoNotEndPipelines ==
    /\ [](\A t \in Sensors :
            /\ pc[t] \in Ended =>
                  \/ pc[t] = "done" /\ seen[t]
                  \/ pc[t] = "dropped" /\ mainPc = "returned"
            /\ FailedAppend(t) => pc[t] \in {"top", "sleep"})
    /\ [][\A t \in Sensors :
            ~token' /\ pc'[t] # pc[t] =>
                /\ pc'[t] \in {"top", "next", "send", "sleep"}
                /\ pc[t] = "top" => pc'[t] = "next"
                /\ pc[t] = "sleep" => pc'[t] = "top"]_vars

\* An append of the GPS task has failed and the task is back at the top of
\* its loop, not cancelled.
C12_Witness ==
    /\ pc["gps"] = "top" /\ FailedAppend("gps") /\ ~token /\ ~seen["gps"]

\* Supplement to C12, under FairSystemSpec: after a failed append the task
\* polls its reader again unless the token is cancelled.
C12_PollsAgain ==
    \A t \in Sensors : FailedAppend(t) ~> (pc[t] = "next" \/ token)

\* A step in which the control task calls an actuator.
ActuatorCall == pc'["control"] # ctl /\ effects'["control"] # <<>>

C14_TimeoutRearmedEveryIteration ==
    [][/\ ctl = "inner_top" /\ pc'["control"] = "timeout" => waited' = 0
       /\ ctl = "timeout" /\ waited = DEAD_TIMEOUT /\ pc'["control"] = "inner_top"
             => control' = Elapsed
       /\ TimeoutStep =>
             /\ waited = DEAD_TIMEOUT
             /\ \E ok \in BOOLEAN :
                   effects'["control"] = << Effect("control", "set_speed", 0, ok) >>
             /\ control = Elapsed => stale = DEAD_TIMEOUT]_vars

\* After a timeout has zeroed the speed, a second window has passed in
\* silence: the second Err(Elapsed) is due.
C14_Witness ==
    /\ control = Elapsed /\ ctl = "timeout" /\ waited = DEAD_TIMEOUT
    /\ stale = DEAD_TIMEOUT /\ lastSpeed = 0 /\ lastSteer = SteerCmd /\ ~token

\* Some call of the last step of the control task has returned Err.
FailedCall == \E i \in 1..Len(calls) : ~calls[i].ok

\* C15: a failing actuator call does not stop the control path.  When
\* set_steer has failed, set_speed has been called after it all the same, with
\* the speed of the same Update; after any failed call (set_steer, set_speed,
\* or set_speed(0) on a timeout) the task has not ended, it is at the top of
\* the inner loop, and from there it goes on to the next wait unless the
\* token is cancelled.
C15_FailedCallsDoNotStopControl ==
    /\ [](FailedCall =>
            /\ ctl = "inner_top"
            /\ calls[1].op = "set_steer" =>
                  /\ Len(calls) = 2
                  /\ calls[2].op = "set_speed"
                  /\ calls[2].val = control.speed)
    /\ [][FailedCall /\ ~token /\ pc'["control"] # ctl =>
            pc'["control"] = "timeout" /\ waited' = 0]_vars

\* set_steer of an Update has failed and set_speed was called with the
\* Update's speed, and succeeded.
C15_Witness ==
    /\ Len(calls) = 2 /\ ~calls[1].ok /\ calls[1].op = "set_steer"
    /\ calls[2].op = "set_speed" /\ calls[2].ok /\ calls[2].val = SpeedCmd
    /\ lastSpeed = SpeedCmd /\ ctl = "inner_top"

\* set_speed(0) of a timeout has failed and the task is in its loop.
C15_WitnessTimeout ==
    /\ control = Elapsed /\ Len(calls) = 1 /\ ~calls[1].ok /\ ctl = "inner_top"

\* The step in which s.next() delivers a decoded Update.
UpdateStep ==
    /\ ctl = "timeout" /\ pc'["control"] = "inner_top"
    /\ control'.kind = "ok" /\ control'.action = "Update"

\* C16: commands are applied in the order of delivery.  The step that takes
\* an Update from the stream makes, before anything else is taken from the
\* stream, exactly one set_steer with its steer followed by exactly one
\* set_speed with its speed, so that the last commanded pair is that of the
\* last Update delivered; no step makes more than one pair, and no set_steer
\* is made by any other step.
C16_UpdatesAppliedInDeliveryOrder ==
    [][/\ UpdateStep =>
             /\ \E a, b \in BOOLEAN :
                   effects'["control"] =
                     << Effect("control", "set_steer", control'.steer, a),
                        Effect("control", "set_speed", control'.speed, b) >>
             /\ lastSteer' = control'.steer
             /\ lastSpeed' = control'.speed
       /\ ~UpdateStep =>
             /\ lastSteer' = lastSteer
             /\ pc'["control"] # ctl =>
                   \A i \in 1..Len(effects'["control"]) :
                       effects'["control"][i].op # "set_steer"]_vars

\* The Update {steer = 0, speed = 0.5} has just been applied, some time into
\* a wait: the last commanded pair is its pair.
C16_Witness ==
    /\ ctl = "inner_top" /\ control = Notification("Update", 0, SpeedCmd)
    /\ Len(calls) = 2 /\ calls[1].op = "set_steer" /\ calls[1].val = 0
    /\ calls[2].op = "set_speed" /\ calls[2].val = SpeedCmd
    /\ lastSteer = 0 /\ lastSpeed = SpeedCmd /\ stale = 0 /\ waited > 0

\* The pipelines with a pacing delay: IMU 50 ms, Analog 500 ms, Magnetometer
\* 300 ms.
Paced == {"imu", "analog", "mag"}

\* C17: every iteration of a paced pipeline makes its pacing delay before the
\* next poll of the reader, whatever the poll returned: the task comes back
\* to the top of its loop only out of the delay (or by its first poll), never
\* straight from reader.next() or from the append.
C17_DelayBetweenPolls ==
    [][\A t \in Paced :
          pc'[t] = "top" /\ pc[t] # "top" => pc[t] \in {"sleep", "spawned"}]_vars

\* C18: the status task is not ended by a failure: neither a failed poll of
\* the signal quality nor a failed append of its value takes the task out of
\* its loop.
C18_StatusFailuresAreNotFatal ==
    [][pc["modem"] \in {"get", "send"} => pc'["modem"] # "panicked"]_vars

\* C19: the safe-stop calls are the last actuator actions of the control
\* task.  Motor.safe_stop() is called before Steering.safe_stop(), each at
\* most once, and once Motor.safe_stop() has been called the task is on its
\* way out and no step calls set_steer or set_speed or changes the commanded
\* pair.
C19_SafeStopsAreLast ==
    /\ [](/\ steerStops <= motorStops /\ motorStops <= 1
          /\ motorStops = 1 => ctl \in {"steer_stop", "done"}
          /\ steerStops = 1 => ctl = "done"
          /\ ctl = "done" => steerStops = 1)
    /\ [][motorStops' >= 1 =>
            /\ lastSteer' = lastSteer /\ lastSpeed' = lastSpeed
            /\ \A i \in 1..Len(effects'["control"]) :
                  effects'["control"][i].op \in SafeStops]_vars

\* Motor.safe_stop() has been called, Steering.safe_stop() not yet, while a
\* steering and a speed were commanded.
C19_Witness ==
    /\ ctl = "steer_stop" /\ motorStops = 1 /\ steerStops = 0
    /\ Len(calls) = 1 /\ calls[1].op = "motor_safe_stop"
    /\ lastSpeed = SpeedCmd /\ lastSteer = SteerCmd

\* The position of the fake-actuators task that stands for a position of the
\* real-actuators task: building the actuators comes before the loops, the
\* safe-stops after them.
SimPosition(p) ==
    IF p \in {"init_motor", "init_steer", "init_failed"} THEN "spawned"
    ELSE IF p \in {"motor_stop", "steer_stop"} THEN "done"
    ELSE p

\* The lines the fake-actuators task prints where the real one makes the
\* calls es: one line for the pair of an Update, nothing for set_speed(0) and
\* for the safe-stops.
SimLines(es) ==
    IF es # <<>> /\ es[1].op = "set_steer"
      THEN << Line(es[1].val, es[Len(es)].val) >>
      ELSE << >>

\* C20: the fake-actuators control loop and the real-actuators control loop
\* are the same state machine.  Fed the same cancellation, subscription
\* results, items and timeouts they are at the same position of the same
\* loop, with the same stream, the same last result and the same wait, and
\* the fake one prints an Update exactly where the real one makes the pair of
\* calls for it, and does nothing where the real one zeroes the speed or
\* safe-stops.
C20_FakeLoopIsTheSameMachine ==
    /\ simPc = SimPosition(ctl)
    /\ simStream = stream
    /\ simControl = control
    /\ simWaited = waited
    /\ simOut = SimLines(calls)

\* Both tasks have handled the Update {steer = 0.3, speed = 0.5}: the real one
\* has called the actuators, the fake one has printed the line.
C20_Witness ==
    /\ ctl = "inner_top" /\ simPc = "inner_top"
    /\ simControl = Notification("Update", SteerCmd, SpeedCmd)
    /\ simOut = << Line(SteerCmd, SpeedCmd) >>
    /\ Len(calls) = 2 /\ lastSpeed = SpeedCmd

\* Both tasks have left their loops on the cancellation, after a timeout: the
\* real one has safe-stopped, the fake one has just ended.
C20_WitnessEnd ==
    /\ ctl = "done" /\ simPc = "done" /\ steerStops = 1
    /\ simControl = Elapsed /\ simOut = <<>>

====
